---- MODULE Spec2Model ----
(***************************************************************************)
(* gtfsrt2lc: the delay merge walk of Gtfsrt2LC.parse (lib/Gtfsrt2LC.js)   *)
(* and the stop-time index builds of GtfsIndex (lib/GtfsIndex.js).         *)
(*                                                                         *)
(* Conventions.  An optional value (a protobuf sub-message that may be     *)
(* null, a CSV column that may be missing, a Date that may be invalid) is  *)
(* the empty tuple when absent and a one-element tuple when present.       *)
(* Instants are seconds counted from midnight of the service day (the      *)
(* update's start_date).  Sequences are 1-based here and 0-based in the    *)
(* source: j and update_index keep the source's 0-based values.            *)
(***************************************************************************)
EXTENDS Integers, Sequences, FiniteSets, TLC

\* ------------------------------------------------------------------ bounds
\* Stop-level observations carried by the trip update of a one-entity feed.
MaxUpdates == 2
\* Entities decoded from a feed of several entities.
MaxEntities == 2
\* Stop-level observations carried by such a feed, over all its entities.
MaxFeedUpdates == 2
\* Entities decoded from a feed whose output is counted against the buffer.
MaxStreamEntities == 6
\* Readable in object mode: the default highWaterMark, in objects.
highWaterMark == 16

\* ------------------------------------------------------------ optional values
None == <<>>
Some(x) == <<x>>
IsSet(o) == Len(o) > 0
Val(o) == o[1]

\* ------------------------------------------------------- static schedule data
\* One row of stop_times.txt as the CSV parser hands it over: every field a
\* string; departure_time kept as its three ':'-separated two-digit fields.
StopTimeRow(stop, hh, mm, ss, pickup, dropoff) ==
    [stop_id |-> stop, departure_time |-> <<hh, mm, ss>>,
     pickup_type |-> pickup, drop_off_type |-> dropoff]

\* this._trips: trip id -> trip row
trips ==
    ("T1" :> [trip_id |-> "T1", route_id |-> "R1", trip_headsign |-> "North"]) @@
    ("T2" :> [trip_id |-> "T2", route_id |-> "R1", trip_headsign |-> "South"])

\* this._stop_times: trip id -> stop times ordered by stop_sequence
stop_times ==
    ("T1" :> << StopTimeRow("A", 8, 0, 0, Some("0"), Some("0")),
                StopTimeRow("B", 8, 10, 0, Some(""), Some("1")),
                StopTimeRow("C", 8, 20, 0, None, None) >>) @@
    ("T2" :> << StopTimeRow("C", 25, 0, 30, Some("1"), Some("")),
                StopTimeRow("B", 25, 10, 0, Some("2"), Some("2")),
                StopTimeRow("A", 25, 20, 15, None, Some("0")),
                StopTimeRow("D", 25, 30, 0, Some("0"), None) >>)

\* this._routes: route id -> route row
routes ==
    ("R1" :> [route_id |-> "R1", route_short_name |-> "10"])

\* Map.get / level get: the record, or absent
Get(index, key) == IF key \in DOMAIN index THEN Some(index[key]) ELSE None

\* What a call of get(key) without callback hands back to parse: with a Map
\* the record or undefined; with a level database a promise, which settles
\* later with the record.
StoreGet(store, index, key) ==
    [promise |-> store = "LevelStore", settles |-> Get(index, key)]

\* !this.trips.get(trip_id): a promise is an object, hence truthy.
Truthy(got) == got.promise \/ IsSet(got.settles)

\* stop_times.length: undefined on a promise.
LengthOf(got) == IF got.promise THEN None ELSE Some(Len(Val(got.settles)))

\* ------------------------------------------------------------ real-time feed
TripIds == {"T1", "T2", "TX"}
ObsStops == {"A", "B", "C"}
DepartureDelays == {-60, 120}
ArrivalDelays == {60}

\* A StopTimeEvent sub-message: absent, or present with its delay.
StopTimeEvents(delays) == {None} \cup {Some(d) : d \in delays}

\* One stop_time_update of a trip update.
StopTimeUpdates ==
    [stop_id : ObsStops,
     departure : StopTimeEvents(DepartureDelays),
     arrival : StopTimeEvents(ArrivalDelays)]

\* trip.start_time as its ':'-separated numeric fields: absent when the feed
\* does not carry it, else the departure time of the trip's first stop
\* (with or without the seconds field).
StartTimesOf(id) ==
    {None} \cup
    (CASE id = "T1" -> {Some(<<8, 0, 0>>), Some(<<8, 0>>)}
       [] id = "T2" -> {Some(<<25, 0, 30>>)}
       [] OTHER -> {Some(<<8, 0, 0>>)})

\* trip.schedule_relationship of a canceled trip (line 295); 0 is SCHEDULED.
CANCELED == 3

RECURSIVE SeqsUpTo(_, _)
SeqsUpTo(S, n) ==
    IF n = 0 THEN {<<>>}
    ELSE LET shorter == SeqsUpTo(S, n - 1)
         IN  shorter \cup {Append(s, x) : s \in {t \in shorter : Len(t) = n - 1}, x \in S}

\* A decoded feed entity: either no trip update (vehicle position, alert) or
\* a trip update with its trip descriptor flattened.
TripUpdates(ids, relationships, lists) ==
    UNION {[trip_id : {id},
            start_time : StartTimesOf(id),
            schedule_relationship : relationships,
            stop_time_update : lists] : id \in ids}

EntitiesOf(deleted, tripUpdates) ==
    [is_deleted : deleted, trip_update : {None} \cup {Some(tu) : tu \in tripUpdates}]

\* The entity of a one-entity feed: every descriptor and every list of up to
\* MaxUpdates observations.
WalkEntities ==
    EntitiesOf(BOOLEAN,
               TripUpdates(TripIds, {0, CANCELED},
                           SeqsUpTo(StopTimeUpdates, MaxUpdates)))

\* The entities of a feed of several: observations at the stops A and B with
\* one non-negative delay each.
FeedStopTimeUpdates ==
    {u \in StopTimeUpdates :
        /\ u.stop_id \in {"A", "B"}
        /\ IsSet(u.departure) # IsSet(u.arrival)
        /\ (IsSet(u.departure) => Val(u.departure) >= 0)}

FeedEntities ==
    EntitiesOf({FALSE},
               TripUpdates(TripIds, {0},
                           SeqsUpTo(FeedStopTimeUpdates, MaxFeedUpdates)))

\* Entities of a long feed, one observation each: an arrival at stop A for
\* any trip, or a departure from stop B for trip T1.
StreamEntities ==
    {e \in FeedEntities :
        /\ IsSet(e.trip_update)
        /\ IsSet(Val(e.trip_update).start_time)
        /\ Len(Val(Val(e.trip_update).start_time)) = 3
        /\ Len(Val(e.trip_update).stop_time_update) = 1
        /\ LET id == Val(e.trip_update).trip_id
               update == Val(e.trip_update).stop_time_update[1]
           IN  \/ update.stop_id = "A" /\ IsSet(update.arrival)
               \/ id = "T1" /\ update.stop_id = "B" /\ IsSet(update.departure)}

NumUpdates(e) ==
    IF IsSet(e.trip_update) THEN Len(Val(e.trip_update).stop_time_update) ELSE 0

\* ------------------------------------------------------------- pure helpers
\* parseGTFSDuration that takes the last field present for the seconds.
parseGTFSDurationLastField(durationString) ==
    [hours |-> durationString[1],
     minutes |-> durationString[2],
     seconds |-> durationString[Len(durationString)]]

\* parseGTFSDuration: split on ':' and parseInt each field; a missing (or zero)
\* seconds field yields 0.
parseGTFSDuration(durationString) ==
    [hours |-> durationString[1],
     minutes |-> durationString[2],
     seconds |-> IF Len(durationString) >= 3 /\ durationString[3] # 0
                 THEN durationString[3] ELSE 0]

\* Characters of the duration texts: two-digit fields separated by ':'.
TensChars == {"0", "1", "3"}
UnitsChars == {"0", "2", "5", "8"}
TwoDigits == {<<a, b>> : a \in TensChars, b \in UnitsChars}

\* HH:MM and HH:MM:SS
DurationStrings ==
    {h \o <<":">> \o m : h \in TwoDigits, m \in TwoDigits} \cup
    {h \o <<":">> \o m \o <<":">> \o sec : h \in TwoDigits, m \in TwoDigits, sec \in TwoDigits}

DigitValue(c) ==
    CASE c = "0" -> 0 [] c = "1" -> 1 [] c = "2" -> 2 [] c = "3" -> 3 [] c = "4" -> 4
      [] c = "5" -> 5 [] c = "6" -> 6 [] c = "7" -> 7 [] c = "8" -> 8 [] c = "9" -> 9

\* parseInt of a text of decimal digits
RECURSIVE parseInt(_)
parseInt(chars) ==
    IF Len(chars) = 1 THEN DigitValue(chars[1])
    ELSE 10 * parseInt(SubSeq(chars, 1, Len(chars) - 1)) + DigitValue(chars[Len(chars)])

\* durationString.split(':')
RECURSIVE Split(_)
Split(chars) ==
    IF \A i \in 1..Len(chars) : chars[i] # ":" THEN <<chars>>
    ELSE LET at == CHOOSE i \in 1..Len(chars) :
                       chars[i] = ":" /\ \A k \in 1..(i - 1) : chars[k] # ":"
         IN  <<SubSeq(chars, 1, at - 1)>> \o Split(SubSeq(chars, at + 1, Len(chars)))

\* durationString.split(':').map(parseInt)
DurationFields(chars) ==
    LET fields == Split(chars) IN [i \in 1..Len(fields) |-> parseInt(fields[i])]

\* addDuration: addSeconds(addMinutes(addHours(date, h), m), s)
addDuration(date, duration) ==
    date + duration.hours * 3600 + duration.minutes * 60 + duration.seconds

\* date.getFullYear()/getMonth()/getDate(): the calendar day an instant falls
\* on, as a day count from the service day.
DayOf(instant) == instant \div 86400

\* Number of characters of String(n) for a non-negative delay.
NumDigits(n) ==
    IF n < 10 THEN 1 ELSE IF n < 100 THEN 2 ELSE IF n < 1000 THEN 3
    ELSE IF n < 10000 THEN 4 ELSE 5

Pow10(k) == CASE k = 1 -> 10 [] k = 2 -> 100 [] k = 3 -> 1000
              [] k = 4 -> 10000 [] OTHER -> 100000

\* departureSeconds + departureDelay: the left operand is the two-character
\* seconds string of the CSV row, so '+' concatenates the delay's decimal
\* text to it and the Date constructor converts the result with Number():
\* "00" + 120 = "00120" -> 120, "30" + 0 = "300" -> 300, "00" + -60 =
\* "00-60" -> NaN (absent).
SecondsPlusDelay(ss, delay) ==
    IF delay < 0 THEN None ELSE Some(ss * Pow10(NumDigits(delay)) + delay)

\* new Date(year, month, day, hours, minutes, seconds, 0): local-time fields
\* overflow into the next unit; a NaN field gives an Invalid Date (absent).
NewDate(day, hh, mm, secs) ==
    IF IsSet(secs)
    THEN Some(day * 86400 + hh * 3600 + mm * 60 + Val(secs))
    ELSE None

\* Number(value) for the strings a pickup_type / drop_off_type column holds.
ToNumber(str) ==
    CASE str = "" -> 0 [] str = "0" -> 0 [] str = "1" -> 1 [] str = "2" -> 2
      [] str = "3" -> 3 [] OTHER -> -1

\* resolveScheduleRelationship: value == 0, value == 1 (loose equality: a
\* string operand is converted with Number(), undefined equals neither).
resolveScheduleRelationship(value) ==
    IF IsSet(value) /\ ToNumber(Val(value)) = 0 THEN "gtfs:Regular"
    ELSE IF IsSet(value) /\ ToNumber(Val(value)) = 1 THEN "gtfs:NotAvailable"
    ELSE "null"

\* getConnectionType that looks at the schedule relationship only.
getConnectionTypeIgnoringDeleted(e) ==
    IF Val(e.trip_update).schedule_relationship = CANCELED
    THEN "CanceledConnection" ELSE "Connection"

\* getConnectionType
getConnectionType(e) ==
    IF e.is_deleted \/ Val(e.trip_update).schedule_relationship = CANCELED
    THEN "CanceledConnection" ELSE "Connection"


\* ------------------------------------------------------------ URI templates
\* A template is the list of its variable names (its literal text plays no
\* role in the resolution).  A variable name is split at the first '.' into
\* source and attr (lines 326-327); attr is absent when the name has no '.',
\* and carries the date format written between parentheses, if any.
VarName(source, attr) ==
    [source |-> source, attr |-> Some([name |-> attr, format |-> None])]
VarNameFormat(source, attr, dateFormat) ==
    [source |-> source, attr |-> Some([name |-> attr, format |-> Some(dateFormat)])]
VarNameNoAttr(source) == [source |-> source, attr |-> None]

\* A value filled into a template: a text, or an instant rendered by format
\* of date-fns: the day for "yyyyMMdd", the minute of the day for "HHmm".
Text(t) == [kind |-> "text", text |-> t, at |-> 0]
Formatted(instant, dateFormat) ==
    [kind |-> "time", text |-> dateFormat,
     at |-> IF dateFormat = "yyyyMMdd" THEN DayOf(instant) ELSE (instant % 86400) \div 60]

Threw == [threw |-> TRUE, value |-> None]
Null == [threw |-> FALSE, value |-> None]
Resolved(v) == [threw |-> FALSE, value |-> Some(v)]

\* record[attr]: undefined when the record has no such attribute
Field(record, attr) ==
    IF attr \in DOMAIN record THEN Resolved(Text(record[attr])) ELSE Null

\* Lines 340-341, 353-357: attr.match(/\((.*?)\)/)[1] throws when attr has no
\* parentheses; format throws on an Invalid Date.
FormatOf(attr, instant) ==
    IF IsSet(attr.format) /\ IsSet(instant)
    THEN Resolved(Formatted(Val(instant), Val(attr.format)))
    ELSE Threw

\* resolveValue (lines 324-365); attr.indexOf throws when attr is undefined.
resolveValue(param, tripId, startTime, connParams) ==
    LET attr == param.attr
    IN  CASE param.source = "trips" ->
                IF ~IsSet(attr) THEN Threw
                ELSE IF Val(attr).name = "startTime"
                     THEN FormatOf(Val(attr), Some(startTime))
                     ELSE Field(trips[tripId], Val(attr).name)
          [] param.source = "routes" ->
                IF ~IsSet(Get(routes, trips[tripId].route_id)) THEN Threw
                ELSE IF ~IsSet(attr) THEN Null
                     ELSE Field(routes[trips[tripId].route_id], Val(attr).name)
          [] param.source = "connection" ->
                IF ~IsSet(attr) THEN Threw
                ELSE IF Val(attr).name = "departureTime"
                     THEN FormatOf(Val(attr), connParams.departureTime)
                     ELSE IF Val(attr).name = "arrivalTime"
                          THEN FormatOf(Val(attr), connParams.arrivalTime)
                          ELSE Field(connParams, Val(attr).name)
          [] OTHER -> Null

\* template.fill: a variable whose value is null or undefined expands to
\* nothing.
Fill(values) ==
    [i \in 1..Len(values) |-> IF IsSet(values[i].value) THEN Val(values[i].value) ELSE Text("")]

\* resolveURI (lines 313-322)
resolveURI(template, tripId, startTime, connParams) ==
    LET values == [i \in 1..Len(template) |->
                      resolveValue(template[i], tripId, startTime, connParams)]
    IN  [threw |-> \E i \in 1..Len(template) : values[i].threw,
         uri |-> Fill(values)]

\* Lines 162-163: the first variable of the stop template takes the stop id.
StopURI(template, stop) ==
    [i \in 1..Len(template) |-> IF i = 1 THEN Text(stop) ELSE Text("")]

\* The templates of a well-formed configuration.
DefaultUris ==
    [stop |-> << VarName("stops", "stop_id") >>,
     route |-> << VarName("routes", "route_short_name") >>,
     trip |-> << VarName("trips", "trip_id"),
                 VarNameFormat("trips", "startTime", "yyyyMMdd") >>,
     connection |-> << VarName("connection", "departureStop"),
                       VarNameFormat("connection", "departureTime", "HHmm"),
                       VarName("trips", "trip_id") >>]

\* Variable names a configuration may hold: well-formed ones, an unknown
\* source, names without attr, attributes the records do not have, a time
\* without its format.
VarNames ==
    {VarName("connection", "arrivalStop"),
     VarNameFormat("connection", "arrivalTime", "HHmm"),
     VarName("trips", "trip_headsign"),
     VarName("routes", "route_id"),
     VarName("stops", "stop_id"),
     VarNameNoAttr("trips"),
     VarNameNoAttr("routes"),
     VarNameNoAttr("connection"),
     VarName("trips", "block_id"),
     VarName("routes", "route_color"),
     VarName("connection", "headsign"),
     VarName("trips", "startTime")}

\* Configurations: the well-formed one, with one more variable in the
\* connection, trip or route template.
UriConfigs ==
    {DefaultUris}
    \cup {[DefaultUris EXCEPT !.connection = Append(@, v)] : v \in VarNames}
    \cup {[DefaultUris EXCEPT !.trip = Append(@, v)] : v \in VarNames}
    \cup {[DefaultUris EXCEPT !.route = Append(@, v)] : v \in VarNames}

\* ------------------------------------------------- one iteration of the walk
\* MatchStep without the branch for an observation that carries only a
\* departure delay.
MatchStepNoDepartureOnly(st, updates, jj, ui, dd, ad) ==
    LET update == updates[ui + 1]
        dep == IsSet(update.departure)
        arr == IsSet(update.arrival)
    IN  IF st[jj + 1].stop_id = update.stop_id
        THEN [departureDelay |-> IF dep /\ arr THEN Val(update.departure)
                                 ELSE IF arr THEN 0 ELSE dd,
              arrivalDelay |-> IF arr THEN Val(update.arrival) ELSE ad,
              update_index |-> ui + 1]
        ELSE [departureDelay |-> dd, arrivalDelay |-> ad, update_index |-> ui]

\* Lines 85-108: when the static stop j is the stop named by the observation
\* at the cursor, take its delays and advance the cursor.
MatchStep(st, updates, jj, ui, dd, ad) ==
    LET update == updates[ui + 1]
        dep == IsSet(update.departure)
        arr == IsSet(update.arrival)
    IN  IF st[jj + 1].stop_id = update.stop_id
        THEN [departureDelay |-> IF dep THEN Val(update.departure)
                                 ELSE IF arr THEN 0 ELSE dd,
              arrivalDelay |-> IF arr THEN Val(update.arrival)
                               ELSE IF dep THEN 0 ELSE ad,
              update_index |-> ui + 1]
        ELSE [departureDelay |-> dd, arrivalDelay |-> ad, update_index |-> ui]

\* Lines 119-123: when static stop j+1 is the stop named by the observation
\* now at the cursor, take that observation's arrival delay; reading the
\* delay of an absent arrival throws.
Lookahead(st, updates, jj, m) ==
    IF m.update_index < Len(updates)
       /\ st[jj + 2].stop_id = updates[m.update_index + 1].stop_id
    THEN LET update == updates[m.update_index + 1]
         IN  IF IsSet(update.arrival)
             THEN [threw |-> FALSE, arrivalDelay |-> Val(update.arrival)]
             ELSE [threw |-> TRUE, arrivalDelay |-> m.arrivalDelay]
    ELSE [threw |-> FALSE, arrivalDelay |-> m.arrivalDelay]

\* Lines 125-146: both instants of the hop, built on the calendar day of the
\* trip start instant from the departure_time fields of stops j and j+1.
HopTimes(st, jj, day, dd, ad) ==
    [departureTime |->
        NewDate(day, st[jj + 1].departure_time[1], st[jj + 1].departure_time[2],
                SecondsPlusDelay(st[jj + 1].departure_time[3], dd)),
     arrivalTime |->
        NewDate(day, st[jj + 2].departure_time[1], st[jj + 2].departure_time[2],
                SecondsPlusDelay(st[jj + 2].departure_time[3], ad))]

\* Lines 85-187, the body of the try block for hop j: the values the locals
\* hold when it ends, whether it threw, and the record it pushes when it did
\* not.  toISOString throws on an Invalid Date.
HopBody(idx, e, tripStart, jj, ui, dd, ad, templates) ==
    LET tu == Val(e.trip_update)
        st == stop_times[tu.trip_id]
        m == MatchStep(st, tu.stop_time_update, jj, ui, dd, ad)
        la == Lookahead(st, tu.stop_time_update, jj, m)
        times == HopTimes(st, jj, DayOf(tripStart), m.departureDelay, la.arrivalDelay)
        valid == IsSet(times.departureTime) /\ IsSet(times.arrivalTime)
        raw_connection == [departureStop |-> st[jj + 1].stop_id,
                           departureTime |-> times.departureTime,
                           arrivalStop |-> st[jj + 2].stop_id,
                           arrivalTime |-> times.arrivalTime]
        routeURI == resolveURI(templates.route, tu.trip_id, tripStart, raw_connection)
        tripURI == resolveURI(templates.trip, tu.trip_id, tripStart, raw_connection)
        connectionURI == resolveURI(templates.connection, tu.trip_id, tripStart,
                                    raw_connection)
    IN  [update_index |-> m.update_index,
         departureDelay |-> m.departureDelay,
         arrivalDelay |-> la.arrivalDelay,
         threw |-> \/ la.threw
                   \/ routeURI.threw \/ tripURI.threw \/ connectionURI.threw
                   \/ ~valid,
         connection |->
            [entity |-> idx, hop |-> jj,
             id |-> connectionURI.uri,
             tripURI |-> tripURI.uri,
             routeURI |-> routeURI.uri,
             departureStopURI |-> StopURI(templates.stop, st[jj + 1].stop_id),
             arrivalStopURI |-> StopURI(templates.stop, st[jj + 2].stop_id),
             type |-> getConnectionType(e),
             trip |-> tu.trip_id,
             departureStop |-> st[jj + 1].stop_id,
             arrivalStop |-> st[jj + 2].stop_id,
             departureTime |-> IF valid THEN Val(times.departureTime) ELSE 0,
             arrivalTime |-> IF valid THEN Val(times.arrivalTime) ELSE 0,
             departureDelay |-> m.departureDelay,
             arrivalDelay |-> la.arrivalDelay,
             direction |-> trips[tu.trip_id].trip_headsign,
             pickupType |-> resolveScheduleRelationship(st[jj + 1].pickup_type),
             dropOffType |-> resolveScheduleRelationship(st[jj + 2].drop_off_type)]]

\* ------------------------------------------------------------------- state
VARIABLES
    pc,             \* "idle": between two entity callbacks; "walk": inside the
                    \* hop loop of one; "closed": end of stream pushed
    attempted,      \* outcome of every entity callback run so far, in feed order
    entity,         \* the entity of the callback started last
    tripStartTime,  \* its trip start instant
    j,              \* hop loop index
    update_index,   \* observation cursor
    departureDelay, \* running delays
    arrivalDelay,
    rejected,       \* some callback threw: Promise.all rejects
    readable,       \* records pushed to the output stream, in order
    errors,         \* what console.error reported from the callbacks
    backend,        \* store the indexes handed to the constructor are kept in
    uris,           \* this._uris: the four URI templates
    todo,           \* entities of the decoded feed not yet handed to the callback
    ended,          \* how many times end of stream (null) was pushed
    result,         \* the promise of parse: "pending", "stream" (fulfilled
                    \* with the output stream), "rejected"
    consumed        \* records the consumer of the stream has read

    \* ---- GtfsIndex: two builds over one static archive
VARIABLES
    archive,            \* data rows of stop_times.txt as extracted, in file order
    uTrips,             \* scoping set of the scoped extraction
    pending,            \* scoped trips whose grep task has not completed
    scoped_stop_times,  \* stop_times_index of the scoped extraction
    ipc,                \* "grep", then the full build: "sort", "scan", "done"
    file,               \* stop_times.txt of the full build's working directory
    pos,                \* rows of it consumed by the streaming scan
    currentTripId,      \* locals of processStopTimes
    currentTrip,
    stop_times_index    \* stop_times_index of the full build

    \* ---- GtfsIndex: the trip index of the same two builds
VARIABLES
    trips_txt,          \* data rows of trips.txt, in file order
    tpending,           \* scoped trips whose grep of trips.txt has not completed
    scoped_trips,       \* trips_index of the scoped extraction
    tp,                 \* createIndex task of trips.txt: "off", "running", "done"
    trips_index         \* trips_index of the full build

    \* ---- GtfsIndex: the first-stop index of the same two builds
VARIABLES
    scoped_firstStops,  \* firstStops of the scoped extraction: absent (null), or
                        \* the Map of line 106
    firstStops          \* firstStops of the full build

fstVars == <<scoped_firstStops, firstStops>>

stopTimesVars == <<archive, uTrips, pending, scoped_stop_times, ipc, file, pos,
                   currentTripId, currentTrip, stop_times_index, fstVars>>

tripsVars == <<trips_txt, tpending, scoped_trips, tp, trips_index>>

    \* ---- GtfsIndex.getIndexes: one run, from the first cleanUp to the
    \* settling of the returned promise
VARIABLES
    options,            \* options of getIndexes: store, trips (a scoping set is
                        \* given), deduce
    path,               \* this.path: "http" (a URL) or "local" (a file path)
    auxPath,            \* the working directory exists
    rt_indexes,         \* the directory .rt_indexes of the LevelStore exists
    files,              \* files the archive was extracted to
    gpc,                \* position of the run
    tasks,              \* state of sp, rp, tp, stp, cp, cdp: "none", "running",
                        \* "done", "failed" (rejected), "lost" (never settles)
    settled,            \* the promise of getIndexes: "pending", "resolved", "rejected"
    indexes             \* the object createIndexes returned

    \* ---- GtfsIndex.createIndexes: the failure of the run
VARIABLES
    firstFailed,        \* the task whose promise rejected first, "none" so far
    thrown              \* what the promise of createIndexes rejected with: a
                        \* task, "sort", "headers", "store", or "none"

failureVars == <<firstFailed, thrown>>

buildVars == <<options, path, auxPath, rt_indexes, files, gpc, tasks, settled, indexes,
               failureVars>>

indexVars == <<stopTimesVars, tripsVars, buildVars>>

configVars == <<backend, uris>>

    \* ---- one call of parseGTFSDuration on a text
VARIABLES
    durationString, \* the argument: the characters of the text
    duration        \* the object returned, once the call has returned

durationVars == <<durationString, duration>>

walkVars == <<pc, attempted, entity, tripStartTime, j, update_index,
              departureDelay, arrivalDelay, rejected, readable, errors,
              configVars, durationVars, todo, ended, result, consumed>>

vars == <<walkVars, indexVars>>

walkLocals == <<tripStartTime, j, update_index, departureDelay, arrivalDelay>>

\* Observations carried by the trip updates attempted so far.
RECURSIVE UsedUpdates(_)
UsedUpdates(att) ==
    IF att = <<>> THEN 0 ELSE Head(att).updates + UsedUpdates(Tail(att))

NoEntity == [is_deleted |-> FALSE, trip_update |-> None]

\* parse is called.
WalkStart ==
    /\ pc = "fetch"
    /\ attempted = <<>>
    /\ entity = NoEntity
    /\ tripStartTime = 0
    /\ j = 0
    /\ update_index = 0
    /\ departureDelay = 0
    /\ arrivalDelay = 0
    /\ rejected = FALSE
    /\ readable = <<>>
    /\ errors = <<>>
    /\ todo = 0
    /\ ended = 0
    /\ result = "pending"
    /\ consumed = 0

\* parseGTFSDuration is not being called on its own.
DurationIdle == durationString = <<>> /\ duration = None

\* parse over in-memory indexes with well-formed templates.
WalkInit ==
    /\ WalkStart
    /\ DurationIdle
    /\ backend = "MemStore"
    /\ uris = DefaultUris

\* parse over in-memory indexes with any configuration of the templates.
UriInit ==
    /\ WalkStart
    /\ DurationIdle
    /\ backend = "MemStore"
    /\ uris \in UriConfigs

\* Lines 32-33: the raw data arrive and decode to a feed of n entities.
GetRawData(n) ==
    /\ pc = "fetch"
    /\ todo' = n
    /\ pc' = "idle"
    /\ UNCHANGED <<indexVars, configVars, durationVars, consumed, attempted, entity, walkLocals,
                   rejected, readable, errors, ended, result>>

\* Lines 202-205, then 207-232: getRawData rejects (no such file, request
\* or response error) or decode throws; the error is logged, end of stream
\* is pushed and parse returns the stream.
SourceError ==
    /\ pc = "fetch"
    /\ errors' = Append(errors, [what |-> "source error", entity |-> 0, hop |-> 0])
    /\ ended' = ended + 1
    /\ result' = "stream"
    /\ pc' = "closed"
    /\ UNCHANGED <<indexVars, configVars, durationVars, consumed, attempted, entity, walkLocals,
                   rejected, readable, todo>>

\* The entity handed next to the map callback (line 35): the only entity
\* of a one-entity feed, or one more entity of a feed of several.
WalkOffered ==
    IF pc = "idle" /\ todo > 0 THEN WalkEntities ELSE {}

FeedOffered ==
    IF pc = "idle" /\ todo > 0
    THEN {e \in FeedEntities : NumUpdates(e) <= MaxFeedUpdates - UsedUpdates(attempted)}
    ELSE {}

NextEntity(e) ==
    /\ pc = "idle"
    /\ todo > 0
    /\ todo' = todo - 1
    /\ entity' = e

Outcome(e, what) ==
    [trip_id |-> IF IsSet(e.trip_update) THEN Val(e.trip_update).trip_id ELSE "",
     updates |-> NumUpdates(e),
     outcome |-> what]

\* Line 36: an entity without a trip update is passed over.
IgnoreEntity(e) ==
    /\ NextEntity(e)
    /\ ~IsSet(e.trip_update)
    /\ attempted' = Append(attempted, Outcome(e, "ignored"))
    /\ UNCHANGED <<indexVars, configVars, durationVars, ended, result, consumed, pc, walkLocals, rejected, readable, errors>>

\* RejectEntity whose rejection ends the stream at once, before the callbacks
\* of the remaining entities have run.
RejectEntityEnding(e) ==
    /\ NextEntity(e)
    /\ IsSet(e.trip_update)
    /\ ~IsSet(Val(e.trip_update).start_time)
    /\ attempted' = Append(attempted, Outcome(e, "rejected"))
    /\ rejected' = TRUE
    /\ ended' = ended + 1
    /\ UNCHANGED <<indexVars, configVars, durationVars, result, consumed, pc, walkLocals, readable, errors>>

\* Line 41: parseGTFSDuration of an absent start_time throws outside the
\* per-hop try block, so the callback's promise rejects.
RejectEntity(e) ==
    /\ NextEntity(e)
    /\ IsSet(e.trip_update)
    /\ ~IsSet(Val(e.trip_update).start_time)
    /\ attempted' = Append(attempted, Outcome(e, "rejected"))
    /\ rejected' = TRUE
    /\ UNCHANGED <<indexVars, configVars, durationVars, ended, result, consumed, pc, walkLocals, readable, errors>>

\* SkipEntity that treats the unknown trip as fatal and ends the stream.
SkipEntityFatal(e) ==
    /\ NextEntity(e)
    /\ IsSet(e.trip_update)
    /\ IsSet(Val(e.trip_update).start_time)
    /\ ~Truthy(StoreGet(backend, trips, Val(e.trip_update).trip_id))
    /\ attempted' = Append(attempted, Outcome(e, "skipped"))
    /\ errors' = Append(errors, [what |-> "trip not found", entity |-> Len(attempted) + 1,
                                 hop |-> 0])
    /\ pc' = "closed"
    /\ UNCHANGED <<indexVars, configVars, durationVars, ended, result, consumed, walkLocals, rejected, readable>>

\* Lines 44-47: no static trip for the update's trip id.
SkipEntity(e) ==
    /\ NextEntity(e)
    /\ IsSet(e.trip_update)
    /\ IsSet(Val(e.trip_update).start_time)
    /\ ~Truthy(StoreGet(backend, trips, Val(e.trip_update).trip_id))
    /\ attempted' = Append(attempted, Outcome(e, "skipped"))
    /\ errors' = Append(errors, [what |-> "trip not found", entity |-> Len(attempted) + 1,
                                 hop |-> 0])
    /\ UNCHANGED <<indexVars, configVars, durationVars, ended, result, consumed, pc, walkLocals, rejected, readable>>

\* Lines 40-71: the trip is known; set up the walk.
StartWalk(e) ==
    /\ NextEntity(e)
    /\ IsSet(e.trip_update)
    /\ IsSet(Val(e.trip_update).start_time)
    /\ Truthy(StoreGet(backend, trips, Val(e.trip_update).trip_id))
    /\ attempted' = Append(attempted, Outcome(e, "walked"))
    /\ tripStartTime' = addDuration(0, parseGTFSDuration(Val(Val(e.trip_update).start_time)))
    /\ j' = 0
    /\ update_index' = 0
    /\ departureDelay' = 0
    /\ arrivalDelay' = 0
    /\ pc' = "walk"
    /\ UNCHANGED <<indexVars, configVars, durationVars, ended, result, consumed, rejected, readable, errors>>

CurrentStopTimes == stop_times[Val(entity.trip_update).trip_id]
CurrentUpdates == Val(entity.trip_update).stop_time_update
CurrentHop ==
    HopBody(Len(attempted), entity, tripStartTime, j, update_index,
            departureDelay, arrivalDelay, uris)


\* Line 78: j < stop_times.length - 1, false when the length is undefined.
LoopCondition ==
    LET length == LengthOf(StoreGet(backend, stop_times, Val(entity.trip_update).trip_id))
    IN  IsSet(length) /\ j < Val(length) - 1

InLoop == pc = "walk" /\ LoopCondition

\* Lines 81-83: no observation at the cursor: leave the loop.
HopBreak ==
    /\ InLoop
    /\ ~(update_index < Len(CurrentUpdates))
    /\ pc' = "idle"
    /\ UNCHANGED <<indexVars, configVars, durationVars, todo, ended, result, consumed, attempted, entity,
                   walkLocals, rejected, readable, errors>>

\* Lines 85-187: hop j is built and pushed.
HopEmit ==
    /\ InLoop
    /\ update_index < Len(CurrentUpdates)
    /\ ~CurrentHop.threw
    /\ readable' = Append(readable, CurrentHop.connection)
    /\ update_index' = CurrentHop.update_index
    /\ departureDelay' = CurrentHop.departureDelay
    /\ arrivalDelay' = CurrentHop.arrivalDelay
    /\ j' = j + 1
    /\ UNCHANGED <<indexVars, configVars, durationVars, todo, ended, result, consumed, pc, attempted, entity,
                   tripStartTime, rejected, errors>>

\* Lines 189-193: building hop j threw; the locals keep what was assigned
\* before the throw and the loop continues with the next hop.
HopFail ==
    /\ InLoop
    /\ update_index < Len(CurrentUpdates)
    /\ CurrentHop.threw
    /\ update_index' = CurrentHop.update_index
    /\ departureDelay' = CurrentHop.departureDelay
    /\ arrivalDelay' = CurrentHop.arrivalDelay
    /\ j' = j + 1
    /\ errors' = Append(errors, [what |-> "null value in stop times", entity |-> Len(attempted),
                                 hop |-> j])
    /\ UNCHANGED <<indexVars, configVars, durationVars, todo, ended, result, consumed, pc, attempted, entity,
                   tripStartTime, rejected, readable>>

\* Line 78: the loop condition fails after the last hop.
EndWalk ==
    /\ pc = "walk"
    /\ ~LoopCondition
    /\ pc' = "idle"
    /\ UNCHANGED <<indexVars, configVars, durationVars, todo, ended, result, consumed, attempted, entity,
                   walkLocals, rejected, readable, errors>>

\* Lines 196-232: map has called the callback for every entity; parse
\* returns the stream, and the handler of Promise.all pushes end of stream,
\* whether it fulfilled (line 197) or rejected (line 200).
EndOfFeed ==
    /\ pc = "idle"
    /\ todo = 0
    /\ ended' = ended + 1
    /\ result' = "stream"
    /\ pc' = "closed"
    /\ UNCHANGED <<indexVars, configVars, durationVars, todo, consumed, attempted, entity, walkLocals,
                   rejected, readable, errors>>

Next ==
    \/ \E n \in 0..1 : GetRawData(n)
    \/ SourceError
    \/ \E e \in WalkOffered : IgnoreEntity(e)
    \/ \E e \in WalkOffered : RejectEntity(e)
    \/ \E e \in WalkOffered : SkipEntity(e)
    \/ \E e \in WalkOffered : StartWalk(e)
    \/ HopBreak
    \/ HopEmit
    \/ HopFail
    \/ EndWalk
    \/ EndOfFeed

StreamOffered == IF pc = "idle" /\ todo > 0 THEN StreamEntities ELSE {}

\* The consumer takes one record out of the stream's buffer. It is attached
\* to the stream parse returns, after map has run every callback (line 35)
\* and the end of stream is queued (lines 196-201); read() {} (line 28) does
\* nothing and the result of push (line 187) is not looked at.
Consume ==
    /\ pc = "closed"
    /\ consumed < Len(readable)
    /\ consumed' = consumed + 1
    /\ UNCHANGED <<indexVars, configVars, durationVars, todo, ended, result, pc, attempted, entity,
                   walkLocals, rejected, readable, errors>>

\* A long feed and the consumer of its output.
StreamNext ==
    \/ \E n \in 0..MaxStreamEntities : GetRawData(n)
    \/ SourceError
    \/ \E e \in StreamOffered : SkipEntity(e)
    \/ \E e \in StreamOffered : StartWalk(e)
    \/ HopBreak
    \/ HopEmit
    \/ HopFail
    \/ EndWalk
    \/ EndOfFeed
    \/ Consume

\* Lines 307-311: one call of parseGTFSDuration returns.
ParseDuration ==
    /\ durationString # <<>>
    /\ duration = None
    /\ duration' = Some(parseGTFSDuration(DurationFields(durationString)))
    /\ UNCHANGED <<indexVars, pc, attempted, entity, walkLocals, rejected, readable, errors,
                   configVars, todo, ended, result, consumed, durationString>>

DurationNext == ParseDuration

\* A feed of one entity, drawn from the entities of FeedNext.
UriNext ==
    \/ \E n \in 0..1 : GetRawData(n)
    \/ SourceError
    \/ \E e \in FeedOffered : IgnoreEntity(e)
    \/ \E e \in FeedOffered : RejectEntity(e)
    \/ \E e \in FeedOffered : SkipEntity(e)
    \/ \E e \in FeedOffered : StartWalk(e)
    \/ HopBreak
    \/ HopEmit
    \/ HopFail
    \/ EndWalk
    \/ EndOfFeed

FeedNext ==
    \/ \E n \in 0..MaxEntities : GetRawData(n)
    \/ SourceError
    \/ \E e \in FeedOffered : IgnoreEntity(e)
    \/ \E e \in FeedOffered : RejectEntity(e)
    \/ \E e \in FeedOffered : SkipEntity(e)
    \/ \E e \in FeedOffered : StartWalk(e)
    \/ HopBreak
    \/ HopEmit
    \/ HopFail
    \/ EndWalk
    \/ EndOfFeed


\* --------------------------------------------------- stop_times.txt as text
\* Identifiers are character sequences, so that grep's substring match and
\* sort's dictionary order can be computed on them.
T1id == <<"T", "1">>
T12id == <<"T", "1", "2">>
T1u2id == <<"T", "1", "_", "2">>
ArchiveTripIds == {T1id, T12id, T1u2id}
ArchiveStopIds == {<<"A">>, <<"S", "T", "1">>}

\* Byte value of a character (C locale collation).
Ord(c) ==
    CASE c = "," -> 44 [] c = "0" -> 48 [] c = "1" -> 49 [] c = "2" -> 50
      [] c = "3" -> 51 [] c = "4" -> 52 [] c = "A" -> 65 [] c = "S" -> 83
      [] c = "T" -> 84 [] c = "_" -> 95 [] OTHER -> 127

IsAlnum(c) == c \notin {",", "_"}

RECURSIVE LexLess(_, _)
\* a sorts strictly before b, byte by byte
LexLess(a, b) ==
    IF b = <<>> THEN FALSE
    ELSE IF a = <<>> THEN TRUE
    ELSE IF Head(a) # Head(b) THEN Ord(Head(a)) < Ord(Head(b))
    ELSE LexLess(Tail(a), Tail(b))

\* Decimal text of a stop_sequence (one digit within the bounds used).
Digits(n) == << CASE n = 0 -> "0" [] n = 1 -> "1" [] n = 2 -> "2" [] n = 3 -> "3"
                  [] OTHER -> "4" >>

\* One data line of stop_times.txt: trip_id,stop_id,stop_sequence; one data
\* line of trips.txt: route_id,trip_id
LineOf(row) ==
    IF "stop_sequence" \in DOMAIN row
    THEN row.trip_id \o <<",">> \o row.stop_id \o <<",">> \o Digits(row.stop_sequence)
    ELSE row.route_id \o <<",">> \o row.trip_id

\* grep PATTERN: the pattern occurs somewhere in the line
Contains(line, pattern) ==
    \E i \in 0..(Len(line) - Len(pattern)) :
        SubSeq(line, i + 1, i + Len(pattern)) = pattern

\* sort's 'd' ordering option: only blanks and alphanumerics are compared
DictionaryKey(field) == SelectSeq(field, IsAlnum)

\* sort -t , -k <trip_id>d,<trip_id> -k<stop_sequence>n,<stop_sequence>: the
\* trip_id key in dictionary order, then the stop_sequence key numerically,
\* then (last resort) the whole line byte by byte.
SortBefore(r1, r2) ==
    LET k1 == DictionaryKey(r1.trip_id)
        k2 == DictionaryKey(r2.trip_id)
    IN  IF k1 # k2 THEN LexLess(k1, k2)
        ELSE IF r1.stop_sequence # r2.stop_sequence
             THEN r1.stop_sequence < r2.stop_sequence
             ELSE LexLess(LineOf(r1), LineOf(r2))

\* sortStopTimes (lines 216-220): the data rows rewritten in sort's order
sortStopTimes(rows) == SortSeq(rows, SortBefore)

RECURSIVE InsertBySequence(_, _)
\* x placed after every element whose stop_sequence is not greater
InsertBySequence(sorted, x) ==
    IF sorted = <<>> THEN <<x>>
    ELSE IF Head(sorted).stop_sequence <= x.stop_sequence
         THEN <<Head(sorted)>> \o InsertBySequence(Tail(sorted), x)
         ELSE <<x>> \o sorted

RECURSIVE SortBySequence(_)
\* Array.prototype.sort with the comparator of lines 280-282 (stable)
SortBySequence(rows) ==
    IF rows = <<>> THEN <<>>
    ELSE InsertBySequence(SortBySequence(SubSeq(rows, 1, Len(rows) - 1)), rows[Len(rows)])

\* grepGtfsFile (lines 287-319): the lines of the file that grep prints for
\* the trip id, split on ',' under the header's names.  The header line
\* itself holds none of the identifiers used here.
grepGtfsFile(tripId, rows) ==
    SelectSeq(rows, LAMBDA row : Contains(LineOf(row), tripId))

\* The value a store holds under a key, or absent.
Lookup(index, key) == IF key \in DOMAIN index THEN Some(index[key]) ELSE None
\* Map.set
MapSet(index, key, value) == [k \in DOMAIN index \cup {key} |->
                                IF k = key THEN value ELSE index[k]]
EmptyMap == [k \in {} |-> <<>>]
\* currentTripId before the first row
NullKey == <<"null">>

\* ------------------------------------------------------------ the archives
\* Rows of stop_times.txt in a valid archive: within a trip every
\* stop_sequence occurs once.
MaxRows == 3
MaxSequence == 2

ArchiveRows ==
    [trip_id : ArchiveTripIds, stop_id : ArchiveStopIds, stop_sequence : 1..MaxSequence]

UniqueSequences(rows) ==
    \A a, b \in 1..Len(rows) :
        (a # b /\ rows[a].trip_id = rows[b].trip_id)
            => rows[a].stop_sequence # rows[b].stop_sequence

Archives == {rows \in SeqsUpTo(ArchiveRows, MaxRows) : UniqueSequences(rows)}

TripsIn(rows) == {rows[i].trip_id : i \in 1..Len(rows)}

\* The row of a trip in trips.txt
TripRow(id) == [route_id |-> <<"R", "1">>, trip_id |-> id]

\* trips.txt of a valid archive: one row for every trip that stop_times.txt
\* refers to, in any file order.
TripsFiles(rows) ==
    {f \in SeqsUpTo({TripRow(id) : id \in TripsIn(rows)}, Cardinality(TripsIn(rows))) :
        /\ Len(f) = Cardinality(TripsIn(rows))
        /\ \A a, b \in 1..Len(f) : a # b => f[a] # f[b]}

RECURSIVE createIndex(_, _)
\* createIndex (lines 183-210) over an existing file, key trip_id: every row
\* is stored under its key, a later row replacing an earlier one.
createIndex(rows, map) ==
    IF rows = <<>> THEN map
    ELSE createIndex(Tail(rows), MapSet(map, Head(rows).trip_id, Head(rows)))

\* t[0] of line 126: the first line grep printed, undefined when none
FirstOf(rows) == IF rows = <<>> THEN None ELSE Some(rows[1])

\* ------------------------------------------------------- a run of getIndexes
Stores == {"MemStore", "LevelStore", "FileStore"}
Mandatory == {"stops", "routes", "trips", "stop_times"}
Optional == {"calendar", "calendar_dates"}
TaskNames == {"sp", "rp", "tp", "stp", "cp", "cdp"}

\* The file a task reads.
FileOf(t) ==
    CASE t = "sp" -> "stops" [] t = "rp" -> "routes" [] t = "tp" -> "trips"
      [] t = "stp" -> "stop_times" [] t = "cp" -> "calendar"
      [] OTHER -> "calendar_dates"

NoTasks == [t \in TaskNames |-> "none"]
NoIndexes == [routes |-> "none", trips |-> "none", stops |-> "none",
              stop_times |-> "none", tripsByRoute |-> "none", firstStops |-> "none",
              calendar |-> "none", calendarDates |-> "none"]

\* Lines 231-234: with a first-stop index given (deduce), a row whose
\* stop_sequence field is the text '1' is stored under its trip id.
SetFirstStop(fst, data) ==
    IF IsSet(fst) /\ Digits(data.stop_sequence) = <<"1">>
    THEN Some(MapSet(Val(fst), data.trip_id, data))
    ELSE fst

\* No run of getIndexes.
BuildIdle ==
    /\ options = [store |-> "MemStore", trips |-> FALSE, deduce |-> FALSE]
    /\ path = "local"
    /\ auxPath = FALSE
    /\ rt_indexes = FALSE
    /\ files = {}
    /\ gpc = "off"
    /\ tasks = NoTasks
    /\ settled = "pending"
    /\ indexes = NoIndexes
    /\ firstFailed = "none"
    /\ thrown = "none"

\* getIndexes is called; the working directory may be left over from an
\* earlier run.
BuildInit ==
    /\ options \in [store : Stores, trips : BOOLEAN, deduce : BOOLEAN]
    /\ path \in {"http", "local"}
    /\ auxPath \in BOOLEAN
    /\ rt_indexes = FALSE
    /\ files = {}
    /\ gpc = "start"
    /\ tasks = NoTasks
    /\ settled = "pending"
    /\ indexes = NoIndexes
    /\ firstFailed = "none"
    /\ thrown = "none"

notBuildVars == <<walkVars, stopTimesVars, tripsVars>>

\* The promise of getIndexes is rejected.
Reject ==
    /\ settled' = "rejected"
    /\ gpc' = "settled"

\* Line 24: cleanUp before anything is fetched.
CleanUpFirst ==
    /\ gpc = "start"
    /\ auxPath' = FALSE
    /\ gpc' = "fetch"
    /\ UNCHANGED <<notBuildVars, failureVars, options, path, rt_indexes, files, tasks, settled, indexes>>

\* Lines 28-30 and 36-38: the path is no URL and no existing file.
InvalidPath ==
    /\ gpc = "fetch"
    /\ Reject
    /\ UNCHANGED <<notBuildVars, failureVars, options, path, auxPath, rt_indexes, files, tasks, indexes>>

\* Lines 66-68, then 45-47: the request fails; cleanUp, then reject.
RequestError ==
    /\ gpc = "fetch"
    /\ path = "http"
    /\ auxPath' = FALSE
    /\ Reject
    /\ UNCHANGED <<notBuildVars, failureVars, options, path, rt_indexes, files, tasks, indexes>>

\* Lines 73-78: the archive bytes arrive; the working directory is created
\* and the extraction started.
Unzip ==
    /\ gpc = "fetch"
    /\ auxPath' = TRUE
    /\ gpc' = "extract"
    /\ UNCHANGED <<notBuildVars, failureVars, options, path, rt_indexes, files, tasks, settled, indexes>>

\* Lines 79-82: the extractor reports an error; cleanUp, and the promise of
\* unzip rejects.  For a local path getIndexes catches it (lines 45-47); for
\* a URL the response callback of doRequest (lines 56-59, 61-64) awaits
\* unzip without a catch and never calls resolve.
ExtractError ==
    /\ gpc = "extract"
    /\ auxPath' = FALSE
    /\ IF path = "local"
       THEN Reject
       ELSE gpc' = "stuck" /\ UNCHANGED settled
    /\ UNCHANGED <<notBuildVars, failureVars, options, path, rt_indexes, files, tasks, indexes>>

\* Lines 83-85, then 44: the extraction is complete; createIndexes is called.
ExtractClose(fs) ==
    /\ gpc = "extract"
    /\ files' = fs
    /\ gpc' = "headers"
    /\ UNCHANGED <<notBuildVars, failureVars, options, path, auxPath, rt_indexes, tasks, settled, indexes>>

\* Line 112: head -1 stop_times.txt; exec rejects when the file is missing,
\* and the rejection of createIndexes settles the promise of getIndexes
\* (line 44 resolves with the promise of createIndexes, outside the await).
StopTimesHeaders ==
    /\ gpc = "headers"
    /\ IF "stop_times" \in files
       THEN gpc' = "store" /\ UNCHANGED <<settled, thrown>>
       ELSE Reject /\ thrown' = "headers"
    /\ UNCHANGED <<notBuildVars, firstFailed, options, path, auxPath, rt_indexes, files, tasks, indexes>>

\* The tasks lines 160-166 start.
OtherTasks == {"sp", "rp"} \cup (IF options.deduce THEN {"cp", "cdp"} ELSE {})

Started(ts) == [t \in TaskNames |-> IF t \in ts THEN "running" ELSE tasks[t]]

\* Lines 120-131 and 160-166: MemStore with a scoping set: the header of
\* trips.txt is read, the grep tasks and the other tasks are started.
ScopedStart ==
    /\ gpc = "store"
    /\ options.store = "MemStore"
    /\ options.trips
    /\ IF "trips" \in files
       THEN /\ tasks' = Started({"tp", "stp"} \cup OtherTasks)
            /\ gpc' = "await"
            /\ UNCHANGED <<settled, thrown>>
       ELSE Reject /\ thrown' = "headers" /\ UNCHANGED tasks
    /\ UNCHANGED <<notBuildVars, firstFailed, options, path, auxPath, rt_indexes, files, indexes>>

\* Lines 132-137 (MemStore) and 141-154 (LevelStore, which creates the
\* directory .rt_indexes): the task of trips.txt is started and the sort
\* awaited.
FullStart ==
    /\ gpc = "store"
    /\ \/ options.store = "MemStore" /\ ~options.trips
       \/ options.store = "LevelStore"
    /\ rt_indexes' = (options.store = "LevelStore")
    /\ tasks' = Started({"tp"})
    /\ gpc' = "sort"
    /\ UNCHANGED <<notBuildVars, failureVars, options, path, auxPath, files, settled, indexes>>

\* Lines 156-158: the store name is not recognized.
UnrecognizedStore ==
    /\ gpc = "store"
    /\ options.store \notin {"MemStore", "LevelStore"}
    /\ Reject
    /\ thrown' = "store"
    /\ UNCHANGED <<notBuildVars, firstFailed, options, path, auxPath, rt_indexes, files, tasks, indexes>>

\* Lines 137-139 / 154-155 and 160-166: the sort is done; the scan of
\* stop_times.txt and the other tasks are started.
SortDone ==
    /\ gpc = "sort"
    /\ tasks' = Started({"stp"} \cup OtherTasks)
    /\ gpc' = "await"
    /\ UNCHANGED <<notBuildVars, failureVars, options, path, auxPath, rt_indexes, files, settled, indexes>>

\* Lines 137 / 154: exec of the sort command rejects.
SortFail ==
    /\ gpc = "sort"
    /\ Reject
    /\ thrown' = "sort"
    /\ UNCHANGED <<notBuildVars, firstFailed, options, path, auxPath, rt_indexes, files, tasks, indexes>>

\* A task reads a file that does not exist without testing for it first:
\* processCalendarDates (lines 261-274) on a missing calendar_dates.txt.
\* The error of the file stream has no listener and the loop over the
\* parser never ends.
ReadsMissingFile(t) == t = "cdp" /\ FileOf(t) \notin files

\* A task can reject: a put of the LevelStore (lines 194, 242, 257), a grep
\* that writes to stderr (lines 296-299).
CanReject(t) ==
    \/ options.store = "LevelStore" /\ t \in {"sp", "rp", "tp", "stp"} /\ FileOf(t) \in files
    \/ options.store = "MemStore" /\ options.trips /\ t \in {"tp", "stp"}

\* A task completes; createIndex (lines 183-210) completes at once, storing
\* nothing, when its file does not exist.
TaskDone(t) ==
    /\ tasks[t] = "running"
    /\ ~ReadsMissingFile(t)
    /\ tasks' = [tasks EXCEPT ![t] = "done"]
    /\ UNCHANGED <<notBuildVars, failureVars, options, path, auxPath, rt_indexes, files, gpc, settled, indexes>>

TaskFail(t) ==
    /\ tasks[t] = "running"
    /\ CanReject(t)
    /\ tasks' = [tasks EXCEPT ![t] = "failed"]
    /\ firstFailed' = IF firstFailed = "none" THEN t ELSE firstFailed
    /\ UNCHANGED <<notBuildVars, thrown, options, path, auxPath, rt_indexes, files, gpc, settled, indexes>>

TaskLost(t) ==
    /\ tasks[t] = "running"
    /\ ReadsMissingFile(t)
    /\ tasks' = [tasks EXCEPT ![t] = "lost"]
    /\ UNCHANGED <<notBuildVars, failureVars, options, path, auxPath, rt_indexes, files, gpc, settled, indexes>>

\* What an index holds once its task is done.
Built(f) == IF f \in files THEN "filled" ELSE "empty"
Scoped == options.store = "MemStore" /\ options.trips

\* Lines 171-180: the returned object; the auxiliary indexes are null
\* ("absent") unless deduce is set (lines 94-109), tripsByRoute is filled by
\* createIndex of trips.txt and firstStops by processStopTimes only.
Result ==
    [routes |-> Built("routes"), trips |-> Built("trips"), stops |-> Built("stops"),
     stop_times |-> Built("stop_times"),
     tripsByRoute |-> IF ~options.deduce THEN "absent"
                      ELSE IF Scoped THEN "empty" ELSE Built("trips"),
     firstStops |-> IF ~options.deduce THEN "absent"
                    ELSE IF Scoped THEN "empty" ELSE Built("stop_times"),
     calendar |-> IF ~options.deduce THEN "absent" ELSE Built("calendar"),
     calendarDates |-> IF ~options.deduce THEN "absent" ELSE Built("calendar_dates")]

\* Lines 168-180: every task is done; cleanUp, and the indexes are returned.
BuildResolved ==
    /\ gpc = "await"
    /\ \A t \in TaskNames : tasks[t] \in {"none", "done"}
    /\ auxPath' = FALSE
    /\ indexes' = Result
    /\ settled' = "resolved"
    /\ gpc' = "settled"
    /\ UNCHANGED <<notBuildVars, failureVars, options, path, rt_indexes, files, tasks>>

\* Line 168: a task has rejected; Promise.all rejects with the reason of the
\* promise that rejected first, and createIndexes and with it the promise of
\* getIndexes reject.
BuildRejected ==
    /\ gpc = "await"
    /\ \E t \in TaskNames : tasks[t] = "failed"
    /\ Reject
    /\ thrown' = firstFailed
    /\ UNCHANGED <<notBuildVars, firstFailed, options, path, auxPath, rt_indexes, files, tasks, indexes>>

BuildNext ==
    \/ CleanUpFirst
    \/ InvalidPath
    \/ RequestError
    \/ Unzip
    \/ ExtractError
    \/ \E fs \in SUBSET (Mandatory \cup Optional) : ExtractClose(fs)
    \/ StopTimesHeaders
    \/ ScopedStart
    \/ FullStart
    \/ UnrecognizedStore
    \/ SortDone
    \/ SortFail
    \/ \E t \in TaskNames : TaskDone(t)
    \/ \E t \in TaskNames : TaskFail(t)
    \/ \E t \in TaskNames : TaskLost(t)
    \/ BuildResolved
    \/ BuildRejected

IndexIdle ==
    /\ archive = <<>>
    /\ uTrips = {}
    /\ pending = {}
    /\ scoped_stop_times = EmptyMap
    /\ ipc = "off"
    /\ file = <<>>
    /\ pos = 0
    /\ currentTripId = NullKey
    /\ currentTrip = <<>>
    /\ stop_times_index = EmptyMap
    /\ scoped_firstStops = None
    /\ firstStops = None
    /\ trips_txt = <<>>
    /\ tpending = {}
    /\ scoped_trips = EmptyMap
    /\ tp = "off"
    /\ trips_index = EmptyMap

\* Both builds are given the same extracted archive; the scoping set holds
\* trip ids of the real-time feed.
IndexInit ==
    /\ archive \in Archives
    /\ uTrips \in (SUBSET ArchiveTripIds) \ {{}}
    /\ pending = uTrips
    /\ scoped_stop_times = EmptyMap
    /\ ipc = "grep"
    /\ file = archive
    /\ pos = 0
    /\ currentTripId = NullKey
    /\ currentTrip = <<>>
    /\ stop_times_index = EmptyMap
    /\ scoped_firstStops = None
    /\ firstStops = None
    /\ trips_txt \in TripsFiles(archive)
    /\ tpending = uTrips
    /\ scoped_trips = EmptyMap
    /\ tp = "off"
    /\ trips_index = EmptyMap

\* Lines 104-109: with deduce set the first-stop index is a Map before either
\* build starts, and null otherwise; both builds are given the same archive
\* and the scoping set holds one trip id.
DeduceInit ==
    /\ archive \in Archives
    /\ uTrips \in {{trip} : trip \in ArchiveTripIds}
    /\ pending = uTrips
    /\ scoped_stop_times = EmptyMap
    /\ ipc = "grep"
    /\ file = archive
    /\ pos = 0
    /\ currentTripId = NullKey
    /\ currentTrip = <<>>
    /\ stop_times_index = EmptyMap
    /\ options \in [store : {"MemStore"}, trips : {FALSE}, deduce : BOOLEAN]
    /\ scoped_firstStops = (IF options.deduce THEN Some(EmptyMap) ELSE None)
    /\ firstStops = (IF options.deduce THEN Some(EmptyMap) ELSE None)
    /\ trips_txt \in TripsFiles(archive)
    /\ tpending = uTrips
    /\ scoped_trips = EmptyMap
    /\ tp = "off"
    /\ trips_index = EmptyMap
    /\ path = "local"
    /\ auxPath = FALSE
    /\ rt_indexes = FALSE
    /\ files = {}
    /\ gpc = "off"
    /\ tasks = NoTasks
    /\ settled = "pending"
    /\ indexes = NoIndexes
    /\ firstFailed = "none"
    /\ thrown = "none"

\* Lines 124-127, one task of the Promise.all: the grep of trips.txt for one
\* scoped trip closes and its first line is stored under the trip id.
GrepTrips(trip) ==
    /\ ipc = "grep"
    /\ trip \in tpending
    /\ scoped_trips' = MapSet(scoped_trips, trip, FirstOf(grepGtfsFile(trip, trips_txt)))
    /\ tpending' = tpending \ {trip}
    /\ UNCHANGED <<walkVars, buildVars, stopTimesVars, trips_txt, tp, trips_index>>

\* grepStopTimes (lines 276-285), one task of the Promise.all: the grep of
\* one scoped trip closes, its rows are sorted by stop_sequence and stored.
GrepStopTimes(trip) ==
    /\ ipc = "grep"
    /\ trip \in pending
    /\ scoped_stop_times' =
          MapSet(scoped_stop_times, trip, SortBySequence(grepGtfsFile(trip, archive)))
    /\ pending' = pending \ {trip}
    /\ UNCHANGED <<walkVars, buildVars, tripsVars, fstVars, archive, uTrips, ipc, file, pos, currentTripId,
                   currentTrip, stop_times_index>>

\* Every grep task has completed; the full build of the same archive starts
\* (line 133: the createIndex task of trips.txt is started before the sort).
ScopedDone ==
    /\ ipc = "grep"
    /\ pending = {}
    /\ tpending = {}
    /\ ipc' = "sort"
    /\ tp' = "running"
    /\ UNCHANGED <<walkVars, buildVars, trips_txt, tpending, scoped_trips, trips_index, fstVars, archive, uTrips, pending, scoped_stop_times, file, pos,
                   currentTripId, currentTrip, stop_times_index>>

\* Lines 134-137: stop_times.txt is replaced by its sorted version.
SortStopTimes ==
    /\ ipc = "sort"
    /\ file' = sortStopTimes(file)
    /\ ipc' = "scan"
    /\ UNCHANGED <<walkVars, buildVars, tripsVars, fstVars, archive, uTrips, pending, scoped_stop_times, pos,
                   currentTripId, currentTrip, stop_times_index>>

\* processStopTimes, lines 230-252: one row of the streaming scan whose trip
\* is the current one (or the first row).
ScanSameTrip ==
    /\ ipc = "scan"
    /\ pos < Len(file)
    /\ currentTripId = NullKey \/ file[pos + 1].trip_id = currentTripId
    /\ currentTrip' = Append(currentTrip, file[pos + 1])
    /\ currentTripId' = file[pos + 1].trip_id
    /\ pos' = pos + 1
    /\ firstStops' = SetFirstStop(firstStops, file[pos + 1])
    /\ UNCHANGED <<walkVars, buildVars, tripsVars, scoped_firstStops, archive, uTrips, pending, scoped_stop_times, ipc, file,
                   stop_times_index>>

\* processStopTimes, lines 237-247: the trip id changes; the list of the
\* previous trip is stored and a new one started.
ScanNextTrip ==
    /\ ipc = "scan"
    /\ pos < Len(file)
    /\ ~(currentTripId = NullKey \/ file[pos + 1].trip_id = currentTripId)
    /\ stop_times_index' = MapSet(stop_times_index, currentTripId, currentTrip)
    /\ currentTrip' = <<file[pos + 1]>>
    /\ currentTripId' = file[pos + 1].trip_id
    /\ pos' = pos + 1
    /\ firstStops' = SetFirstStop(firstStops, file[pos + 1])
    /\ UNCHANGED <<walkVars, buildVars, tripsVars, scoped_firstStops, archive, uTrips, pending, scoped_stop_times, ipc, file>>

\* processStopTimes, lines 253-258: end of input; the last list is stored.
ScanEnd ==
    /\ ipc = "scan"
    /\ pos = Len(file)
    /\ stop_times_index' = MapSet(stop_times_index, currentTripId, currentTrip)
    /\ ipc' = "done"
    /\ UNCHANGED <<walkVars, buildVars, tripsVars, fstVars, archive, uTrips, pending, scoped_stop_times, file, pos,
                   currentTripId, currentTrip>>

\* Line 133: the createIndex task of trips.txt completes, at any point of
\* the sort and the scan.
CreateTripsIndex ==
    /\ tp = "running"
    /\ trips_index' = createIndex(trips_txt, trips_index)
    /\ tp' = "done"
    /\ UNCHANGED <<walkVars, buildVars, stopTimesVars, trips_txt, tpending, scoped_trips>>

IndexNext ==
    \/ \E trip \in tpending : GrepTrips(trip)
    \/ CreateTripsIndex
    \/ \E trip \in pending : GrepStopTimes(trip)
    \/ ScopedDone
    \/ SortStopTimes
    \/ ScanSameTrip
    \/ ScanNextTrip
    \/ ScanEnd

Init == WalkInit /\ IndexIdle /\ BuildIdle

IndexSpecInit == WalkInit /\ IndexInit /\ BuildIdle

BuildSpecInit == WalkInit /\ IndexIdle /\ BuildInit

StoreInit == WalkStart /\ DurationIdle /\ backend \in {"MemStore", "LevelStore"} /\ uris = DefaultUris
DurationInit ==
    /\ WalkStart
    /\ backend = "MemStore"
    /\ uris = DefaultUris
    /\ durationString \in DurationStrings
    /\ duration = None
DurationSpecInit == DurationInit /\ IndexIdle /\ BuildIdle
StoreSpecInit == StoreInit /\ IndexIdle /\ BuildIdle
UriSpecInit == UriInit /\ IndexIdle /\ BuildIdle

\* parse over a feed holding one entity
Spec == Init /\ [][Next]_vars

\* parse over a feed of up to MaxEntities entities
FeedSpec == Init /\ [][FeedNext]_vars

\* a scoped extraction and a full build of the stop-time index of one archive
IndexSpec == IndexSpecInit /\ [][IndexNext]_vars

DeduceSpecInit == WalkInit /\ DeduceInit

\* the same two builds with the deduce option set or not
DeduceSpec == DeduceSpecInit /\ [][IndexNext]_vars

\* parse over a feed holding one entity, under any configuration of the URI
\* templates
UriSpec == UriSpecInit /\ [][UriNext]_vars

\* parseGTFSDuration applied to a text HH:MM or HH:MM:SS
DurationSpec == DurationSpecInit /\ [][DurationNext]_vars

\* parse over a feed of up to MaxStreamEntities entities, and the consumer
StreamSpec == Init /\ [][StreamNext]_vars

\* parse over a feed holding one entity, with the indexes of either backend
StoreSpec == StoreSpecInit /\ [][UriNext]_vars

\* one run of getIndexes, task by task
BuildSpec == BuildSpecInit /\ [][BuildNext]_vars

\* ----------------------------------------------------------------- claims
Clock(hh, mm, ss) == hh * 3600 + mm * 60 + ss

\* Scheduled time-of-day of a stop time, from midnight of the service day.
Scheduled(row) ==
    Clock(row.departure_time[1], row.departure_time[2], row.departure_time[3])

Current == Len(attempted)
Walked(idx) == idx \in 1..Len(attempted) /\ attempted[idx].outcome = "walked"
\* The hop loop of the entity started last has been left.
WalkOver == pc # "walk" /\ Walked(Current)
ConnectionsOf(idx) == SelectSeq(readable, LAMBDA c : c.entity = idx)
HopsOf(idx) == {readable[i].hop : i \in {k \in 1..Len(readable) : readable[k].entity = idx}}
FailedHopsOf(idx) ==
    {errors[i].hop : i \in {k \in 1..Len(errors) :
        errors[k].entity = idx /\ errors[k].what = "null value in stop times"}}
LastHop == Len(CurrentStopTimes) - 2

\* The update of the end-to-end example: trip T1, one observation at B with a
\* departure delay of 120 s and no arrival.
IsExampleUpdate ==
    /\ IsSet(entity.trip_update)
    /\ Val(entity.trip_update).trip_id = "T1"
    /\ Val(entity.trip_update).start_time = Some(<<8, 0, 0>>)
    /\ Val(entity.trip_update).stop_time_update =
          << [stop_id |-> "B", departure |-> Some(120), arrival |-> None] >>

HopIs(c, from, to, dd, ad, dt, at) ==
    /\ c.departureStop = from /\ c.arrivalStop = to
    /\ c.departureDelay = dd /\ c.arrivalDelay = ad
    /\ c.departureTime = dt /\ c.arrivalTime = at

\* C1: for T1 = [A@08:00:00, B@08:10:00, C@08:20:00] and one observation at B
\* (departure delay 120, no arrival), the finished run has emitted exactly the
\* hops A->B (delays 0/120, 08:00:00 - 08:12:00) and B->C (delays 120/0,
\* 08:12:00 - 08:20:00).
C1_EndToEndExample ==
    (pc = "closed" /\ IsExampleUpdate) =>
        /\ Len(readable) = 2
        /\ HopIs(readable[1], "A", "B", 0, 120, Clock(8, 0, 0), Clock(8, 12, 0))
        /\ HopIs(readable[2], "B", "C", 120, 0, Clock(8, 12, 0), Clock(8, 20, 0))

\* C2: when the walk of a trip is over and it ended at a hop j before the last
\* because the (non-empty) observation list was exhausted, every hop j..n-2 has been
\* emitted with the delays that were current when the cursor ran out.
C2_RemainingHopsKeepDelays ==
    (WalkOver /\ CurrentUpdates # <<>> /\ ~(update_index < Len(CurrentUpdates))) =>
        \A h \in j..LastHop :
            \E i \in 1..Len(readable) :
                /\ readable[i].entity = Current /\ readable[i].hop = h
                /\ readable[i].departureDelay = departureDelay
                /\ readable[i].arrivalDelay = arrivalDelay

\* C3: a trip update without observations yields all n-1 hops, each with zero
\* delays and the scheduled times.
C3_NoObservationsPassThrough ==
    (WalkOver /\ CurrentUpdates = <<>>) =>
        /\ Len(ConnectionsOf(Current)) = Len(CurrentStopTimes) - 1
        /\ \A i \in 1..Len(ConnectionsOf(Current)) :
              LET c == ConnectionsOf(Current)[i]
              IN  /\ c.hop = i - 1
                  /\ c.departureDelay = 0 /\ c.arrivalDelay = 0
                  /\ c.departureTime = Scheduled(CurrentStopTimes[i])
                  /\ c.arrivalTime = Scheduled(CurrentStopTimes[i + 1])

\* The first observation of the entity started last carries only a departure
\* delay.
FirstIsDepartureOnly ==
    /\ Walked(Current)
    /\ CurrentUpdates # <<>>
    /\ IsSet(CurrentUpdates[1].departure)
    /\ ~IsSet(CurrentUpdates[1].arrival)

\* C4 as stated: when the first observation carries only a departure delay d,
\* the first hop emitted for the trip has departureDelay d and arrivalDelay 0.
C4_FirstEmittedHopAsStated ==
    (FirstIsDepartureOnly /\ ConnectionsOf(Current) # <<>>) =>
        /\ ConnectionsOf(Current)[1].departureDelay = Val(CurrentUpdates[1].departure)
        /\ ConnectionsOf(Current)[1].arrivalDelay = 0

\* C4 amended: when the first observation names the trip's first static stop
\* and carries only a departure delay d, a connection emitted for the first
\* hop has departureDelay d, and arrivalDelay 0 unless the second observation
\* names the second static stop, in which case it has that observation's
\* arrival delay; whatever entities were processed before.
C4_FirstHopDepartureOnly ==
    (FirstIsDepartureOnly /\ CurrentUpdates[1].stop_id = CurrentStopTimes[1].stop_id) =>
        \A i \in 1..Len(readable) :
            (readable[i].entity = Current /\ readable[i].hop = 0) =>
                /\ readable[i].departureDelay = Val(CurrentUpdates[1].departure)
                /\ readable[i].arrivalDelay =
                      IF Len(CurrentUpdates) >= 2
                         /\ CurrentUpdates[2].stop_id = CurrentStopTimes[2].stop_id
                      THEN Val(CurrentUpdates[2].arrival)
                      ELSE 0

\* C4 witness: the second entity of a feed starts with a departure-only
\* observation at its first stop and has its first hop emitted, after an
\* entity whose walk ended with a non-zero arrival delay.
C4_Witness ==
    /\ Current = 2
    /\ Walked(1)
    /\ FirstIsDepartureOnly
    /\ CurrentUpdates[1].stop_id = CurrentStopTimes[1].stop_id
    /\ \E i \in 1..Len(readable) : readable[i].entity = 2 /\ readable[i].hop = 0
    /\ \E i \in 1..Len(readable) : readable[i].entity = 1 /\ readable[i].arrivalDelay # 0

\* C5: every connection of an entity flagged deleted or whose schedule
\* relationship is CANCELED (3) has type CanceledConnection; every connection
\* of any other entity has type Connection.
C5_CanceledType ==
    \A i \in 1..Len(readable) :
        IF entity.is_deleted \/ Val(entity.trip_update).schedule_relationship = 3
        THEN readable[i].type = "CanceledConnection"
        ELSE readable[i].type = "Connection"

\* C5 witness: a deleted entity whose schedule relationship is SCHEDULED has a
\* delayed hop emitted, and so has (in another run) a CANCELED entity.
C5_Witness ==
    /\ readable # <<>>
    /\ entity.is_deleted
    /\ Val(entity.trip_update).schedule_relationship = 0
    /\ readable[1].departureDelay # 0


\* The step runs the callback of an entity whose trip id has no static trip.
AttemptsUnknownTrip ==
    /\ Len(attempted') = Len(attempted) + 1
    /\ IsSet(entity'.trip_update)
    /\ Val(entity'.trip_update).trip_id \notin DOMAIN trips

\* C6: an update naming a trip id absent from the trip index emits nothing
\* and leaves the run ready for the next entity: no record of the output
\* belongs to such an update, and the step that attempts it pushes nothing
\* and returns to the point where the next callback starts.
C6_UnknownTripSkipped ==
    /\ [](\A i \in 1..Len(readable) :
            /\ readable[i].trip \in DOMAIN trips
            /\ attempted[readable[i].entity].trip_id \in DOMAIN trips)
    /\ [][AttemptsUnknownTrip => (pc' = "idle" /\ readable' = readable)]_vars

\* C6 witness: the first trip update of a feed names an unknown trip and was
\* skipped, and the second one has had a connection emitted.
C6_Witness ==
    /\ Len(attempted) = 2
    /\ attempted[1].outcome = "skipped"
    /\ \E i \in 1..Len(readable) : readable[i].entity = 2

\* A hop the loop did not reach would be built without error from the locals
\* as they stand: the cursor is exhausted, so only the two instants decide.
WouldBuild(h) ==
    LET times == HopTimes(CurrentStopTimes, h, DayOf(tripStartTime),
                          departureDelay, arrivalDelay)
    IN  IsSet(times.departureTime) /\ IsSet(times.arrivalTime)

\* C7: when building some hop of a trip failed, every other hop of the trip
\* that can be built without error has been emitted once the walk is over.
C7_OnlyFailedHopMissing ==
    (WalkOver /\ FailedHopsOf(Current) # {}) =>
        \A h \in 0..LastHop :
            (h \notin FailedHopsOf(Current) /\ (h >= j => WouldBuild(h)))
                => h \in HopsOf(Current)

\* C8: every emitted hop departs at the departure stop's scheduled time of
\* day plus departureDelay and arrives at the arrival stop's scheduled time of
\* day plus arrivalDelay, both counted from midnight of the service day.
C8_AbsoluteTimes ==
    \A i \in 1..Len(readable) :
        LET c == readable[i]
            st == stop_times[c.trip]
        IN  /\ c.departureTime = Scheduled(st[c.hop + 1]) + c.departureDelay
            /\ c.arrivalTime = Scheduled(st[c.hop + 2]) + c.arrivalDelay

\* The mapping of C9: code 0 is Regular, code 1 is NotAvailable, anything
\* else, an empty or a missing field included, is null.
CodeMapping(value) ==
    IF value = Some("0") THEN "gtfs:Regular"
    ELSE IF value = Some("1") THEN "gtfs:NotAvailable"
    ELSE "null"

\* C9: every emitted hop has pickupType mapped from the departure stop's
\* pickup code and dropOffType mapped from the arrival stop's drop-off code.
C9_PickupDropOffMapping ==
    \A i \in 1..Len(readable) :
        LET c == readable[i]
            st == stop_times[c.trip]
        IN  /\ c.pickupType = CodeMapping(st[c.hop + 1].pickup_type)
            /\ c.dropOffType = CodeMapping(st[c.hop + 2].drop_off_type)


\* C10: for every trip id of the archive that is in the scoping set, the
\* stop-time list stored by the scoped extraction is the list stored by the
\* full build: same rows, same order.
C10_ScopedEqualsFull ==
    ipc = "done" =>
        \A trip \in TripsIn(archive) \cap uTrips :
            Lookup(scoped_stop_times, trip) = Lookup(stop_times_index, trip)

\* Line 168: every task of the full build has completed.
BuildDone == ipc = "done" /\ tp = "done"

\* The rows a stop-time index holds, over all its lists.
RowsOf(index) == UNION {{index[k][i] : i \in 1..Len(index[k])} : k \in DOMAIN index}

Ascending(list) ==
    \A i \in 1..(Len(list) - 1) : list[i].stop_sequence < list[i + 1].stop_sequence

\* The trip id resolves to a record of the trip index.
Resolves(index, id) == IsSet(Lookup(index, id)) /\ Lookup(index, id) # Some(None)

\* C11: after a successful build (scoped extraction, full build) over a valid
\* archive, the trip id of every row the stop-time index holds resolves in
\* the trip index, and every list of the stop-time index is in strictly
\* ascending stop_sequence order.
C11_ResolvesAndSorted ==
    BuildDone =>
        /\ \A row \in RowsOf(stop_times_index) : Resolves(trips_index, row.trip_id)
        /\ \A k \in DOMAIN stop_times_index : Ascending(stop_times_index[k])
        /\ \A row \in RowsOf(scoped_stop_times) : Resolves(scoped_trips, row.trip_id)
        /\ \A k \in DOMAIN scoped_stop_times : Ascending(scoped_stop_times[k])

\* C12: when the promise of getIndexes is rejected, neither the working
\* directory nor the directory of the on-disk store exists.
C12_RejectedAfterCleanUp ==
    settled = "rejected" => (~auxPath /\ ~rt_indexes)

\* A task that reads a missing optional file has completed or is yet to.
OptionalTolerated ==
    \A t \in {"cp", "cdp"} :
        FileOf(t) \notin files => tasks[t] \in {"none", "running", "done"}

\* C13: a build that succeeds had every mandatory file, and holds no record
\* in the index of a missing optional file; the task of a missing optional
\* file completes without an error.
C13_MissingFiles ==
    /\ settled = "resolved" =>
          /\ Mandatory \subseteq files
          /\ "calendar" \notin files => indexes.calendar \in {"absent", "empty"}
          /\ "calendar_dates" \notin files => indexes.calendarDates \in {"absent", "empty"}
    /\ OptionalTolerated

\* getRawData rejected or decode threw.
SourceFailed == \E i \in 1..Len(errors) : errors[i].what = "source error"

\* C14: when fetching or decoding the feed fails, the promise of parse is
\* rejected; without a source error, whatever happens to single entities or
\* hops, it is not.
C14_SourceErrorRejects ==
    /\ (SourceFailed /\ pc = "closed") => result = "rejected"
    /\ ~SourceFailed => result # "rejected"

\* C18: end of stream is pushed once, when the run closes; at that moment
\* every entity of the feed has been handed to the callback and no walk is
\* under way; nothing is pushed after it.
C18_EndOnceAfterAll ==
    /\ [](ended <= 1)
    /\ [](pc = "closed" <=> ended = 1)
    /\ [](ended = 1 => todo = 0)
    /\ [][ended = 1 => (readable' = readable /\ ended' = 1)]_vars

\* C18 witness: the callback of the first of two entities threw, the second
\* entity had a connection emitted, and the stream is ended.
C18_Witness ==
    /\ ended = 1
    /\ Len(attempted) = 2
    /\ attempted[1].outcome = "rejected"
    /\ \E i \in 1..Len(readable) : readable[i].entity = 2

\* Attributes the records handed to resolveValue have.
Attributes(source) ==
    CASE source = "trips" -> {"trip_id", "route_id", "trip_headsign", "startTime"}
      [] source = "routes" -> {"route_id", "route_short_name"}
      [] source = "connection" -> {"departureStop", "arrivalStop", "departureTime",
                                   "arrivalTime"}
      [] OTHER -> {}

\* The variable cannot be resolved: unknown source, no attr, or an attribute
\* the record does not have.
Unresolvable(v) ==
    \/ v.source \notin {"trips", "routes", "connection"}
    \/ ~IsSet(v.attr)
    \/ Val(v.attr).name \notin Attributes(v.source)

HasUnresolvable ==
    \E k \in {"route", "trip", "connection"} :
        \E i \in 1..Len(uris[k]) : Unresolvable(uris[k][i])

\* Building the hop at the cursor throws under the configured templates and
\* would not under the default ones: the templates are the cause.
TemplateFailure ==
    /\ InLoop
    /\ update_index < Len(CurrentUpdates)
    /\ CurrentHop.threw
    /\ ~HopBody(Len(attempted), entity, tripStartTime, j, update_index,
                departureDelay, arrivalDelay, DefaultUris).threw

\* C15: when a template holds a variable that cannot be resolved, no
\* connection is emitted with it, and a hop the templates make fail is not
\* logged as a per-hop failure and skipped: the run is rejected.
C15_UnresolvableIsConfigError ==
    [][HasUnresolvable =>
           /\ readable' = readable
           /\ TemplateFailure => (errors' = errors /\ result' = "rejected")]_vars

\* ------------------------------------------------------------ C16
\* C16: the lookups parse performs for the entity it walks yield under the
\* configured backend what they yield under the in-memory backend, and the
\* entities walked are those whose trip the archive knows, the entities
\* skipped those whose trip it does not know.
C16_BackendsInterchangeable ==
    /\ pc = "walk" =>
          LET id == Val(entity.trip_update).trip_id
          IN  /\ StoreGet(backend, trips, id) = StoreGet("MemStore", trips, id)
              /\ StoreGet(backend, stop_times, id) = StoreGet("MemStore", stop_times, id)
    /\ \A i \in 1..Len(attempted) :
          /\ attempted[i].outcome = "walked" => attempted[i].trip_id \in DOMAIN trips
          /\ attempted[i].outcome = "skipped" => attempted[i].trip_id \notin DOMAIN trips

\* ------------------------------------------------------------ C17
Buffered == Len(readable) - consumed

\* C17: the records pushed and not yet consumed never exceed the buffering
\* limit of the stream.
C17_BufferWithinLimit == Buffered <= highWaterMark

\* ------------------------------------------------------------ C19
Chars1200 == <<"1", "2", ":", "0", "0">>
Chars120000 == <<"1", "2", ":", "0", "0", ":", "0", "0">>
Chars080530 == <<"0", "8", ":", "0", "5", ":", "3", "0">>

HMS(h, m, sec) == [hours |-> h, minutes |-> m, seconds |-> sec]

\* C19: "12:00" and "12:00:00" parse to 12h 0m 0s, "08:05:30" to 8h 5m 30s,
\* and a text HH:MM parses to what HH:MM:00 parses to, with 0 seconds.
C19_DurationParsing ==
    IsSet(duration) =>
        /\ durationString \in {Chars1200, Chars120000} => Val(duration) = HMS(12, 0, 0)
        /\ durationString = Chars080530 => Val(duration) = HMS(8, 5, 30)
        /\ Len(durationString) = 5 =>
              /\ Val(duration).seconds = 0
              /\ Val(duration) =
                     parseGTFSDuration(DurationFields(durationString \o <<":", "0", "0">>))

\* "12:00", without seconds field, has been parsed.
C19_Witness == IsSet(duration) /\ durationString = Chars1200

\* ------------------------------------------------------------ C21
\* The delays an observation sets when it is applied.
Applied(update, dd, ad) ==
    [departureDelay |-> IF IsSet(update.departure) THEN Val(update.departure)
                        ELSE IF IsSet(update.arrival) THEN 0 ELSE dd,
     arrivalDelay |-> IF IsSet(update.arrival) THEN Val(update.arrival)
                      ELSE IF IsSet(update.departure) THEN 0 ELSE ad]

\* Cursor and running delays once every observation at the cursor that names
\* static stop j has been applied.
RECURSIVE AppliedWhile(_, _, _, _, _, _)
AppliedWhile(st, updates, jj, ui, dd, ad) ==
    IF ui < Len(updates) /\ st[jj + 1].stop_id = updates[ui + 1].stop_id
    THEN LET a == Applied(updates[ui + 1], dd, ad)
         IN  AppliedWhile(st, updates, jj, ui + 1, a.departureDelay, a.arrivalDelay)
    ELSE [departureDelay |-> dd, arrivalDelay |-> ad, update_index |-> ui]

\* After the match step the lookahead leaves the arrival delay alone.
NoLookahead(st, updates, jj, ui) ==
    ~(ui < Len(updates) /\ st[jj + 2].stop_id = updates[ui + 1].stop_id)

\* C21: the step of hop j applies every observation at the cursor naming
\* static stop j, repeatedly, and advances the cursor past them; with no such
\* observation cursor and running delays stay as they were (the arrival
\* delay is compared where the lookahead does not set it).
C21_MatchWhileNamesStop ==
    [][(InLoop /\ update_index < Len(CurrentUpdates)) =>
           LET w == AppliedWhile(CurrentStopTimes, CurrentUpdates, j, update_index,
                                 departureDelay, arrivalDelay)
           IN  /\ update_index' = w.update_index
               /\ departureDelay' = w.departureDelay
               /\ NoLookahead(CurrentStopTimes, CurrentUpdates, j, w.update_index)
                     => arrivalDelay' = w.arrivalDelay]_vars

\* ------------------------------------------------------------ C22
\* Cursor and delays of the hop at the cursor after its match step.
Matched ==
    MatchStep(CurrentStopTimes, CurrentUpdates, j, update_index, departureDelay,
              arrivalDelay)

\* After the match step of hop j the cursor points at an observation that
\* names static stop j+1.
LookaheadCase ==
    /\ InLoop
    /\ update_index < Len(CurrentUpdates)
    /\ Matched.update_index < Len(CurrentUpdates)
    /\ CurrentStopTimes[j + 2].stop_id = CurrentUpdates[Matched.update_index + 1].stop_id

Ahead == CurrentUpdates[Matched.update_index + 1]

\* The arrival delay the hop carries: that of the observation ahead, or the
\* running one when the observation carries none.
AheadArrivalDelay ==
    IF IsSet(Ahead.arrival) THEN Val(Ahead.arrival) ELSE Matched.arrivalDelay

\* Both instants of the hop are dates.
AheadTimesValid ==
    LET times == HopTimes(CurrentStopTimes, j, DayOf(tripStartTime),
                          Matched.departureDelay, AheadArrivalDelay)
    IN  IsSet(times.departureTime) /\ IsSet(times.arrivalTime)

\* C22: when, after the match step, the observation at the cursor names
\* static stop j+1, the lookahead does not advance the cursor and the hop is
\* emitted with the arrival delay of that observation, also when the
\* observation carries only a departure delay.
C22_LookaheadEmits ==
    [][LookaheadCase =>
           /\ update_index' = Matched.update_index
           /\ IsSet(Ahead.arrival) => arrivalDelay' = Val(Ahead.arrival)
           /\ AheadTimesValid =>
                 /\ Len(readable') = Len(readable) + 1
                 /\ readable'[Len(readable')].hop = j
                 /\ readable'[Len(readable')].arrivalDelay = AheadArrivalDelay]_vars

\* ------------------------------------------------------------ C23
\* The rows of a trip, in any order, each once.
HoldsEachOnce(list, rows, trip) ==
    /\ \A i \in 1..Len(rows) :
          rows[i].trip_id = trip =>
              Cardinality({k \in 1..Len(list) : list[k] = rows[i]}) = 1
    /\ \A k \in 1..Len(list) : \E i \in 1..Len(rows) : rows[i] = list[k]

\* C23: after the streaming scan of the full build the stop-time index has
\* one key for every trip id of the input and no other key, none when the
\* input is empty, and the list under a trip id holds every row of that trip
\* exactly once.
C23_OneKeyPerTrip ==
    ipc = "done" =>
        /\ DOMAIN stop_times_index = TripsIn(archive)
        /\ \A trip \in TripsIn(archive) :
              /\ trip \in DOMAIN stop_times_index
              /\ HoldsEachOnce(stop_times_index[trip], archive, trip)

\* ------------------------------------------------------------ C24
\* The tasks createIndexes starts under the options of the run.
TasksOfRun == {"sp", "rp", "tp", "stp"} \cup (IF options.deduce THEN {"cp", "cdp"} ELSE {})

\* C24: createIndexes returns indexes only when every task it starts has
\* completed; when the run settles after a task has failed, it is rejected
\* with the error of the task that failed first and returns no indexes.
C24_AllDoneOrFirstFailure ==
    /\ [](settled = "resolved" => \A t \in TasksOfRun : tasks[t] = "done")
    /\ [][(settled = "pending" /\ settled' # "pending" /\ firstFailed # "none") =>
              /\ settled' = "rejected"
              /\ thrown' = firstFailed
              /\ indexes' = NoIndexes]_vars

\* ------------------------------------------------------------ C25
\* C25: while the archive is being fetched and extracted (no build task has
\* started) a run whose promise is pending can always take a further step:
\* it never stays pending forever, and a failure of the fetch or of the
\* extraction rejects the promise.
C25_AlwaysSettles ==
    /\ [](( gpc # "off" /\ tasks = NoTasks /\ settled = "pending") => ENABLED BuildNext)
    /\ [][(gpc \in {"fetch", "extract"} /\ gpc' \notin {"fetch", "extract", "headers"})
              => settled' = "rejected"]_vars

\* ---------------------------------------------------------------- claim C26
\* The row is one of the list and no row of the list has a lower
\* stop_sequence.
IsLowest(row, list) ==
    /\ \E i \in 1..Len(list) : list[i] = row
    /\ \A i \in 1..Len(list) : row.stop_sequence <= list[i].stop_sequence

\* The first-stop index has, for every trip of the stop-time index that has
\* stop times, the stop time of that trip with the lowest sequence number.
FirstStopsOf(fst, index) ==
    \A k \in DOMAIN index :
        Len(index[k]) > 0 => /\ k \in DOMAIN fst
                             /\ IsLowest(fst[k], index[k])

\* C26: with deduce set, after the build the first-stop index maps every trip
\* id of the stop-time index to the stop time of that trip with the lowest
\* sequence number, whatever number the sequence starts at, after the full
\* build and after the scoped extraction; with deduce not set the first-stop
\* index is absent.
C26_FirstStopOfEveryTrip ==
    ipc = "done" =>
        IF options.deduce
        THEN /\ IsSet(firstStops)
             /\ FirstStopsOf(Val(firstStops), stop_times_index)
             /\ IsSet(scoped_firstStops)
             /\ FirstStopsOf(Val(scoped_firstStops), scoped_stop_times)
        ELSE firstStops = None /\ scoped_firstStops = None

\* ---------------------------------------------------------------- claim C27
\* Every row of every list of a stop-time index is a row of the trip the
\* list is stored under.
RowsUnderOwnKey(index) ==
    \A k \in DOMAIN index : \A i \in 1..Len(index[k]) : index[k][i].trip_id = k

\* C27: in both build modes, at every point of the build, every record of
\* the trip index stored under key k is a trip row whose trip_id is k, and
\* every row of the stop-time list stored under key k has trip_id k.  (A
\* scoped trip that grep finds no line for has no record to speak of.)
C27_KeyConsistency ==
    /\ \A k \in DOMAIN trips_index : trips_index[k].trip_id = k
    /\ \A k \in DOMAIN scoped_trips :
          IsSet(scoped_trips[k]) => Val(scoped_trips[k]).trip_id = k
    /\ RowsUnderOwnKey(stop_times_index)
    /\ RowsUnderOwnKey(scoped_stop_times)

====
